---- MODULE Spec2Model ----
(***************************************************************************)
(* Model of userspace/ksud/src/event.rs: the boot-phase entry points       *)
(* on_post_data_fs, on_services, on_boot_completed, and the systemless     *)
(* overlay mounting done by mount_systemlessly / mount_partition.          *)
(*                                                                         *)
(* Every fallible call of the source (file removal, rename, copy, mount,   *)
(* umount, snapshot, remount, read_dir, the hook steps) is a               *)
(* nondeterministic choice between success and failure.                    *)
(***************************************************************************)
EXTENDS Integers, Sequences, FiniteSets, TLC

\* ------------------------------------------------------------------ bounds
MaxBoots == 2        \* number of boots of the device that are explored
MaxUpdates == 1      \* number of update images the installer places
MaxModules == 2      \* number of entries in the module root directory

\* --------------------------------------------------------------- constants
\* defs::MODULE_DIR, and the names used below the module directory
MODULE_DIR == "/data/adb/modules"
\* mount_overlay is called with lowerdir.join(":")
SEP == ":"

\* the partition mounted first, and the other five (event.rs line 59)
SystemPartition == "system"
partition == <<"vendor", "product", "system_ext", "odm", "oem">>
OtherPartitions == {partition[i] : i \in 1..Len(partition)}
Partitions == {SystemPartition} \cup OtherPartitions

\* ------------------------------------------------------------ image files
\* An image file is absent, or holds the content of image number id, fully
\* or (after an interrupted copy) partially.
NoImg == [id |-> 0, full |-> FALSE]
Img(i) == [id |-> i, full |-> TRUE]
PartialImg(i) == [id |-> i, full |-> FALSE]
\* Path::exists
Exists(f) == f.id # 0
\* the base image of the first boot holds content 1, the updates 2, 3, ...
UpdateIds == 2..(1 + MaxUpdates)

\* ------------------------------------------------------------ module tree
\* One entry of the module root: a directory or not, with a disable marker
\* or not, holding subtrees for some partitions.
ModNames == <<"modA", "modB", "modC", "modD">>
FileEntry == [isDir |-> FALSE, disabled |-> FALSE, parts |-> {}]
DirEntries ==
    { [isDir |-> TRUE, disabled |-> d, parts |-> ps] :
        d \in BOOLEAN,
        ps \in {{"system"}, {"system", "vendor"}, {"odm"}} }
    \cup {[isDir |-> TRUE, disabled |-> FALSE, parts |-> {}]}
EntryKinds == {FileEntry} \cup DirEntries
TreesOfLen(n) == [1..n -> EntryKinds]
\* every listing of the module root with at most MaxModules entries
Trees == UNION {TreesOfLen(n) : n \in 0..MaxModules}
\* the image contents met during the boot lifecycle
BootTrees ==
    { << >>,
      <<[isDir |-> TRUE, disabled |-> FALSE, parts |-> {"system"}],
        [isDir |-> TRUE, disabled |-> TRUE, parts |-> {"system"}]>> }

VARIABLES
    \* files of the working directory
    updateImg,      \* defs::MODULE_UPDATE_IMG
    baseImg,        \* defs::MODULE_IMG
    marker,         \* WORKING_DIR/UPDATE_FILE_NAME exists
    nextId,         \* number of the next update image the installer writes
    \* the device
    has_magisk,     \* utils::has_magisk()
    safe_mode,      \* utils::is_safe_mode()
    symlinks,       \* partitions p whose /p is a symbolic link
    boots,          \* boots so far
    pc,             \* position of the running entry point
    \* mount table and module directory
    mountedImg,     \* image mounted on MODULE_DIR, with the path it came from
    moduleTree,     \* listing of MODULE_DIR
    stockOverlay,   \* the stock overlay wrapper is mounted
    mounts,         \* per partition: overlay mounted, stock mounts visible
    \* on_post_data_fs
    target_update_img,  \* "base" or "update"
    sel,            \* what the image selection met: update, flag, base
    pfdResult,      \* "none", "ok", "err"
    steps,          \* calls made by the running entry point, in order
    failed,         \* the calls among them that returned an error
    adopted,        \* per image number: mount calls on it from the update path
    \* mount_systemlessly / mount_partition
    lowerdirs,      \* per partition: the collected lowerdir list
    remaining,      \* entries of partition_lowerdir not yet iterated
    mpCalls,        \* per partition: mount_partition invocations this phase
    last,           \* the latest mount_partition invocation
    msResult,       \* "none", "ok", "err"
    \* on_services / on_boot_completed
    svcResult,      \* "none", "ok"
    bc,             \* on_boot_completed: what it met and did
    bcResult,       \* "none", "ok", "err"
    daemonResult    \* "none", "ok"

fileVars == <<updateImg, baseImg, marker, nextId>>
envVars == <<has_magisk, safe_mode, symlinks, boots>>
mountVars == <<mountedImg, moduleTree, stockOverlay, mounts>>
pfdVars == <<target_update_img, sel, pfdResult, steps, failed, adopted>>
msVars == <<lowerdirs, remaining, mpCalls, last, msResult>>
bcVars == <<svcResult, bc, bcResult, daemonResult>>
vars == <<fileVars, envVars, pc, mountVars, pfdVars, msVars, bcVars>>

\* ---------------------------------------------------------------- helpers
NoMount == [img |-> NoImg, from |-> "none"]
\* a partition before any overlay: no overlay, stock mounts in place
PreOverlay == [overlay |-> FALSE, stock |-> TRUE]
NoCall == [part |-> "none", arg |-> << >>, called |-> << >>, oks |-> {},
           ovlLower |-> << >>, ovlTarget |-> "none",
           pre |-> PreOverlay, post |-> PreOverlay, result |-> "none"]
NoSel == [seen |-> FALSE, update |-> FALSE, flag |-> FALSE, base |-> FALSE,
          img |-> NoImg]
NoBc == [had |-> FALSE, src |-> NoImg, before |-> NoImg,
         rename |-> "none", copy |-> "none", remove |-> "none"]

\* ------------------------------------------- the primitives of crate::mount
\* mount::mount_overlay on a partition: the overlay covers the stock mounts
MountOverlay(m, ok) ==
    IF ok THEN [overlay |-> TRUE, stock |-> FALSE] ELSE m
\* StockMount::remount: the captured stock mounts are put back on top
Remount(m, ok) ==
    IF ok THEN [m EXCEPT !.stock = TRUE] ELSE m
\* mount::umount_dir: the topmost mount of the partition is taken off
UmountDir(m, ok) ==
    IF ok THEN [overlay |-> FALSE, stock |-> TRUE] ELSE m

\* Vec<String>::join(":") as the tokens of the joined string
RECURSIVE Join(_)
Join(list) ==
    IF Len(list) = 0 THEN << >>
    ELSE IF Len(list) = 1 THEN <<list[1]>>
    ELSE <<list[1], SEP>> \o Join(Tail(list))
\* the lower directories an overlay mount takes from its lowerdir option
SplitSep(tokens) == SelectSeq(tokens, LAMBDA t : t # SEP)

\* format!("/{partition}")
LowestDir(part) == "/" \o part
\* lowerdir.push(lowest_dir.clone())
PushLowestFirst(lowerdir, part) == <<LowestDir(part)>> \o lowerdir
PushLowest(lowerdir, part) == Append(lowerdir, LowestDir(part))

\* ------------------------------------------------------- mount_partition
\* lines 37-38: the overlay is unmounted when the remount failed and the
\* overlay mount had succeeded
UnwindNever(ovlOk, remOk) == FALSE
Unwind(ovlOk, remOk) == ~remOk /\ ovlOk
\* line 47: the result is the one of mount_overlay
MpResultOfRemount(ovlOk, remOk, umOk) ==
    IF ovlOk /\ remOk THEN "ok" ELSE "err"
MpResult(ovlOk, remOk, umOk) == IF ovlOk THEN "ok" ELSE "err"

\* mount_partition without the symbolic link test of lines 17-20
mount_partition_link_untested(part, lowerdir, isLink, snapOk, ovlOk, remOk, umOk, m) ==
    LET skip == [part |-> part, arg |-> lowerdir, called |-> << >>,
                 oks |-> {}, ovlLower |-> << >>, ovlTarget |-> "none",
                 pre |-> m, post |-> m, result |-> "ok"]
        unwind == Unwind(ovlOk, remOk)
        m2 == Remount(MountOverlay(m, ovlOk), remOk)
    IN  IF Len(lowerdir) = 0 THEN skip
        ELSE IF ~snapOk THEN
            [skip EXCEPT !.called = <<"snapshot">>, !.result = "err"]
        ELSE
            [skip EXCEPT
               !.called = <<"snapshot", "overlay", "remount">>
                          \o (IF unwind THEN <<"umount">> ELSE << >>),
               !.oks = {"snapshot"}
                       \cup (IF ovlOk THEN {"overlay"} ELSE {})
                       \cup (IF remOk THEN {"remount"} ELSE {})
                       \cup (IF unwind /\ umOk THEN {"umount"} ELSE {}),
               !.ovlLower = Join(PushLowest(lowerdir, part)),
               !.ovlTarget = LowestDir(part),
               !.post = IF unwind THEN UmountDir(m2, umOk) ELSE m2,
               !.result = MpResult(ovlOk, remOk, umOk)]

\* mount_partition with the error of StockMount::new (line 26) dropped
mount_partition_snapshot_unchecked(part, lowerdir, isLink, snapOk, ovlOk, remOk, umOk, m) ==
    LET skip == [part |-> part, arg |-> lowerdir, called |-> << >>,
                 oks |-> {}, ovlLower |-> << >>, ovlTarget |-> "none",
                 pre |-> m, post |-> m, result |-> "ok"]
        unwind == Unwind(ovlOk, remOk)
        m2 == Remount(MountOverlay(m, ovlOk), remOk)
    IN  IF Len(lowerdir) = 0 THEN skip
        ELSE IF isLink THEN skip
        ELSE
            [skip EXCEPT
               !.called = <<"snapshot", "overlay", "remount">>
                          \o (IF unwind THEN <<"umount">> ELSE << >>),
               !.oks = (IF snapOk THEN {"snapshot"} ELSE {})
                       \cup (IF ovlOk THEN {"overlay"} ELSE {})
                       \cup (IF remOk THEN {"remount"} ELSE {})
                       \cup (IF unwind /\ umOk THEN {"umount"} ELSE {}),
               !.ovlLower = Join(PushLowest(lowerdir, part)),
               !.ovlTarget = LowestDir(part),
               !.post = IF unwind THEN UmountDir(m2, umOk) ELSE m2,
               !.result = MpResult(ovlOk, remOk, umOk)]

\* One invocation: part and lowerdir are the arguments, isLink tells whether
\* /part is a symbolic link, snapOk, ovlOk, remOk, umOk are the outcomes of
\* StockMount::new, mount_overlay, remount and umount_dir, m is the mount
\* state of the partition.  The value holds the calls made, what the overlay
\* was called with, the mount state afterwards and the result.
mount_partition(part, lowerdir, isLink, snapOk, ovlOk, remOk, umOk, m) ==
    LET skip == [part |-> part, arg |-> lowerdir, called |-> << >>,
                 oks |-> {}, ovlLower |-> << >>, ovlTarget |-> "none",
                 pre |-> m, post |-> m, result |-> "ok"]
        joined == Join(PushLowest(lowerdir, part))
        m1 == MountOverlay(m, ovlOk)
        m2 == Remount(m1, remOk)
        unwind == Unwind(ovlOk, remOk)
        m3 == IF unwind THEN UmountDir(m2, umOk) ELSE m2
    IN  IF Len(lowerdir) = 0 THEN skip
        ELSE IF isLink THEN skip
        ELSE IF ~snapOk THEN
            [skip EXCEPT !.called = <<"snapshot">>, !.result = "err"]
        ELSE
            [part |-> part, arg |-> lowerdir,
             called |-> <<"snapshot", "overlay", "remount">>
                        \o (IF unwind THEN <<"umount">> ELSE << >>),
             oks |-> {"snapshot"}
                     \cup (IF ovlOk THEN {"overlay"} ELSE {})
                     \cup (IF remOk THEN {"remount"} ELSE {})
                     \cup (IF unwind /\ umOk THEN {"umount"} ELSE {}),
             ovlLower |-> joined, ovlTarget |-> LowestDir(part),
             pre |-> m, post |-> m3,
             result |-> MpResult(ovlOk, remOk, umOk)]

\* ---------------------------------------------------- mount_systemlessly
\* module.join(part) for the i-th entry of the listing
ModulePath(i) == MODULE_DIR \o "/" \o ModNames[i]
SubPath(i, part) == ModulePath(i) \o "/" \o part

\* the loop without the disable marker test of lines 70-74
RECURSIVE CollectDisabledToo(_, _, _)
CollectDisabledToo(tree, part, i) ==
    IF i > Len(tree) THEN << >>
    ELSE IF ~tree[i].isDir THEN CollectDisabledToo(tree, part, i + 1)
    ELSE IF part \in tree[i].parts
         THEN <<SubPath(i, part)>> \o CollectDisabledToo(tree, part, i + 1)
         ELSE CollectDisabledToo(tree, part, i + 1)

\* the loop over the directory entries, for one partition: the subtrees of
\* the enabled module directories, in listing order
RECURSIVE CollectFrom(_, _, _)
CollectFrom(tree, part, i) ==
    IF i > Len(tree) THEN << >>
    ELSE IF ~tree[i].isDir THEN CollectFrom(tree, part, i + 1)
    ELSE IF tree[i].disabled THEN CollectFrom(tree, part, i + 1)
    ELSE IF part \in tree[i].parts
         THEN <<SubPath(i, part)>> \o CollectFrom(tree, part, i + 1)
         ELSE CollectFrom(tree, part, i + 1)
Collect(tree, part) == CollectFrom(tree, part, 1)

NoLowerdirs == [p \in Partitions |-> << >>]

\* the outcomes to tell apart: none where mount_partition makes no call
Outcomes(p) ==
    IF Len(lowerdirs[p]) = 0 \/ p \in symlinks THEN {TRUE} ELSE BOOLEAN

\* the invocation of mount_partition by mount_systemlessly, for partition p
InvokeMountPartition(p) ==
    \E snapOk, ovlOk, remOk, umOk \in Outcomes(p) :
        LET r == mount_partition(p, lowerdirs[p], p \in symlinks,
                                 snapOk, ovlOk, remOk, umOk, mounts[p])
        IN  /\ last' = r
            /\ mounts' = [mounts EXCEPT ![p] = r.post]
            /\ mpCalls' = [mpCalls EXCEPT ![p] = @ + 1]

\* the error of read_dir returned by on_post_data_fs as well
MsOpenDirFatal ==
    /\ pc = "ms_open"
    /\ steps' = Append(steps, "mount_systemlessly")
    /\ \E ok \in BOOLEAN :
        IF ok
        THEN /\ lowerdirs' = [p \in Partitions |-> Collect(moduleTree, p)]
             /\ remaining' = OtherPartitions
             /\ pc' = "ms_system"
             /\ UNCHANGED <<msResult, failed, pfdResult>>
        ELSE /\ msResult' = "err"
             /\ failed' = failed \cup {"mount_systemlessly"}
             /\ pfdResult' = "err"
             /\ pc' = "svc_start"
             /\ UNCHANGED <<lowerdirs, remaining>>
    /\ UNCHANGED <<fileVars, envVars, mountVars, target_update_img,
                   sel, adopted, mpCalls, last, bcVars>>

\* lines 52-92: open the module root and collect the lowerdir lists
MsOpenDir ==
    /\ pc = "ms_open"
    /\ steps' = Append(steps, "mount_systemlessly")
    /\ \E ok \in BOOLEAN :
        IF ok
        THEN /\ lowerdirs' = [p \in Partitions |-> Collect(moduleTree, p)]
             /\ remaining' = OtherPartitions
             /\ pc' = "ms_system"
             /\ UNCHANGED <<msResult, failed>>
        ELSE /\ msResult' = "err"
             /\ failed' = failed \cup {"mount_systemlessly"}
             /\ pc' = "pfd_mount_all"
             /\ UNCHANGED <<lowerdirs, remaining>>
    /\ UNCHANGED <<fileVars, envVars, mountVars, target_update_img,
                   sel, pfdResult, adopted, mpCalls, last, bcVars>>

\* the error of the system mount returned instead of logged
MsMountSystemPropagate ==
    /\ pc = "ms_system"
    /\ InvokeMountPartition(SystemPartition)
    /\ pc' = IF last'.result = "err" THEN "pfd_mount_all" ELSE "ms_others"
    /\ msResult' = IF last'.result = "err" THEN "err" ELSE msResult
    /\ UNCHANGED <<fileVars, envVars, mountedImg, moduleTree, stockOverlay,
                   pfdVars, lowerdirs, remaining, bcVars>>

\* lines 94-97: mount /system first
MsMountSystem ==
    /\ pc = "ms_system"
    /\ InvokeMountPartition(SystemPartition)
    /\ pc' = "ms_others"
    /\ UNCHANGED <<fileVars, envVars, mountedImg, moduleTree, stockOverlay,
                   pfdVars, lowerdirs, remaining, msResult, bcVars>>

\* the loop over the other partitions entered before /system is mounted
MsMountOtherBeforeSystem ==
    /\ pc \in {"ms_system", "ms_others"}
    /\ \E k \in remaining :
        /\ InvokeMountPartition(k)
        /\ remaining' = remaining \ {k}
    /\ UNCHANGED <<fileVars, envVars, pc, mountedImg, moduleTree,
                   stockOverlay, pfdVars, lowerdirs, msResult, bcVars>>

\* lines 100-104: one iteration over partition_lowerdir, a HashMap, whose
\* iteration order is arbitrary
MsMountOther ==
    /\ pc = "ms_others"
    /\ \E k \in remaining :
        /\ InvokeMountPartition(k)
        /\ remaining' = remaining \ {k}
    /\ UNCHANGED <<fileVars, envVars, pc, mountedImg, moduleTree,
                   stockOverlay, pfdVars, lowerdirs, msResult, bcVars>>

\* line 106
MsReturn ==
    /\ pc = "ms_others"
    /\ remaining = {}
    /\ msResult' = "ok"
    /\ pc' = "pfd_mount_all"
    /\ UNCHANGED <<fileVars, envVars, mountVars, pfdVars, lowerdirs,
                   remaining, mpCalls, last, bcVars>>

\* -------------------------------------------------------- on_post_data_fs
\* the file target_update_img names
TargetImg == IF target_update_img = "update" THEN updateImg ELSE baseImg

\* the entry point returns r; the host goes on to the services phase
PfdReturn(r) ==
    /\ pfdResult' = r
    /\ pc' = "svc_start"

\* a call named c is made and succeeds or fails
Called(c, ok) ==
    /\ steps' = Append(steps, c)
    /\ failed' = IF ok THEN failed ELSE failed \cup {c}

\* on_post_data_fs without the has_magisk test of lines 112-115
PfdStartMagiskUntested ==
    /\ pc = "pfd_start"
    /\ failed' = {}
    /\ steps' = <<"report", "umask">>
    /\ target_update_img' = "base"
    /\ pc' = "pfd_clean"
    /\ UNCHANGED <<fileVars, envVars, mountVars, sel, pfdResult, adopted,
                   msVars, bcVars>>

\* lines 110-125
PfdStart ==
    /\ pc = "pfd_start"
    /\ failed' = {}
    /\ IF has_magisk
       THEN /\ steps' = <<"report">>
            /\ PfdReturn("ok")
            /\ UNCHANGED target_update_img
       ELSE /\ steps' = <<"report", "umask">>
            /\ target_update_img' = "base"
            /\ pc' = "pfd_clean"
            /\ UNCHANGED pfdResult
    /\ UNCHANGED <<fileVars, envVars, mountVars, sel, adopted, msVars,
                   bcVars>>

\* line 128: ensure_clean_dir(module_dir)?
PfdCleanDir ==
    /\ pc = "pfd_clean"
    /\ \E ok \in BOOLEAN :
        /\ Called("clean_dir", ok)
        /\ IF ok
           THEN /\ moduleTree' = << >>
                /\ pc' = "pfd_bin"
                /\ UNCHANGED pfdResult
           ELSE /\ PfdReturn("err")
                /\ UNCHANGED moduleTree
    /\ UNCHANGED <<fileVars, envVars, mountedImg, stockOverlay, mounts,
                   target_update_img, sel, adopted, msVars, bcVars>>

\* line 130: assets::ensure_binaries()?
PfdEnsureBinaries ==
    /\ pc = "pfd_bin"
    /\ \E ok \in BOOLEAN :
        /\ Called("ensure_binaries", ok)
        /\ IF ok
           THEN pc' = "pfd_select" /\ UNCHANGED pfdResult
           ELSE PfdReturn("err")
    /\ UNCHANGED <<fileVars, envVars, mountVars, target_update_img, sel, adopted,
                   msVars, bcVars>>

\* line 133: the update image is adopted when the flag exists
AdoptAlways(flag) == TRUE
AdoptUpdate(flag) == flag
\* line 139: std::fs::remove_file(module_update_flag)?
FlagKept(flag, rmOk) == flag
FlagAfterSelect(flag, rmOk) == flag /\ ~rmOk
\* line 142: std::fs::remove_file(module_update_img)?
UpdateAfterDiscard(u, rmOk) == IF rmOk THEN NoImg ELSE u
\* lines 139, 142: the ? after remove_file
SelectNext(rmOk) == IF rmOk THEN "pfd_target" ELSE "svc_start"

\* the selection with remove_file(module_img) at line 142
PfdSelectImageRemovesBase ==
    /\ pc = "pfd_select"
    /\ sel' = [seen |-> TRUE, update |-> Exists(updateImg), flag |-> marker,
               base |-> Exists(baseImg), img |-> updateImg]
    /\ IF Exists(updateImg)
       THEN \E rmOk \in BOOLEAN :
            /\ IF AdoptUpdate(marker)
               THEN /\ target_update_img' = "update"
                    /\ Called("remove_flag", rmOk)
                    /\ marker' = FlagAfterSelect(marker, rmOk)
                    /\ UNCHANGED baseImg
               ELSE /\ Called("remove_update", rmOk)
                    /\ baseImg' = UpdateAfterDiscard(baseImg, rmOk)
                    /\ UNCHANGED <<marker, target_update_img>>
            /\ pc' = SelectNext(rmOk)
            /\ pfdResult' = IF pc' = "svc_start" THEN "err" ELSE pfdResult
       ELSE /\ pc' = "pfd_target"
            /\ UNCHANGED <<baseImg, marker, target_update_img, pfdResult,
                           steps, failed>>
    /\ UNCHANGED <<updateImg, nextId, envVars, mountVars, adopted, msVars,
                   bcVars>>

\* lines 132-144: choose the image, consume the flag or the stale update
PfdSelectImage ==
    /\ pc = "pfd_select"
    /\ sel' = [seen |-> TRUE, update |-> Exists(updateImg), flag |-> marker,
               base |-> Exists(baseImg), img |-> updateImg]
    /\ IF Exists(updateImg)
       THEN \E rmOk \in BOOLEAN :
            /\ IF AdoptUpdate(marker)
               THEN /\ target_update_img' = "update"
                    /\ Called("remove_flag", rmOk)
                    /\ marker' = FlagAfterSelect(marker, rmOk)
                    /\ UNCHANGED updateImg
               ELSE /\ Called("remove_update", rmOk)
                    /\ updateImg' = UpdateAfterDiscard(updateImg, rmOk)
                    /\ UNCHANGED <<marker, target_update_img>>
            /\ pc' = SelectNext(rmOk)
            /\ pfdResult' = IF pc' = "svc_start" THEN "err" ELSE pfdResult
       ELSE /\ pc' = "pfd_target"
            /\ UNCHANGED <<updateImg, marker, target_update_img, pfdResult,
                           steps, failed>>
    /\ UNCHANGED <<baseImg, nextId, envVars, mountVars, adopted, msVars,
                   bcVars>>

\* lines 147-149: no image at the target, nothing to do
PfdCheckTarget ==
    /\ pc = "pfd_target"
    /\ IF ~Exists(TargetImg)
       THEN PfdReturn("ok")
       ELSE pc' = "pfd_mount" /\ UNCHANGED pfdResult
    /\ UNCHANGED <<fileVars, envVars, mountVars, target_update_img, sel, steps,
                   failed, adopted, msVars, bcVars>>

\* the image mount with its error logged instead of returned
PfdMountImageNotFatal ==
    /\ pc = "pfd_mount"
    /\ adopted' = IF target_update_img = "update"
                  THEN [adopted EXCEPT ![updateImg.id] = @ + 1]
                  ELSE adopted
    /\ \E ok \in BOOLEAN :
        /\ Called("mount_image", ok)
        /\ IF ok
           THEN /\ mountedImg' = [img |-> TargetImg,
                                  from |-> target_update_img]
                /\ moduleTree' \in BootTrees
           ELSE UNCHANGED <<mountedImg, moduleTree>>
    /\ pc' = "pfd_safe"
    /\ UNCHANGED <<fileVars, envVars, stockOverlay, mounts,
                   target_update_img, sel, pfdResult, msVars, bcVars>>

\* lines 153-155: AutoMountExt4::try_new(target_update_img, module_dir, false)?
\* The mount stays until the device reboots; the listing of the module
\* directory is then the content of the image.
PfdMountImage ==
    /\ pc = "pfd_mount"
    /\ adopted' = IF target_update_img = "update"
                  THEN [adopted EXCEPT ![updateImg.id] = @ + 1]
                  ELSE adopted
    /\ \E ok \in BOOLEAN :
        /\ Called("mount_image", ok)
        /\ IF ok
           THEN /\ mountedImg' = [img |-> TargetImg,
                                  from |-> target_update_img]
                /\ moduleTree' \in BootTrees
                /\ pc' = "pfd_safe"
                /\ UNCHANGED pfdResult
           ELSE /\ PfdReturn("err")
                /\ UNCHANGED <<mountedImg, moduleTree>>
    /\ UNCHANGED <<fileVars, envVars, stockOverlay, mounts,
                   target_update_img, sel, msVars, bcVars>>

\* crate::module::disable_all_modules: a disable marker in every module
\* directory; on failure only the first k module entries were reached
DisableUpTo(tree, k) ==
    [i \in 1..Len(tree) |->
        IF i <= k /\ tree[i].isDir
        THEN [tree[i] EXCEPT !.disabled = TRUE] ELSE tree[i]]
DisableAll(tree) == DisableUpTo(tree, Len(tree))

\* line 158: the safe mode check
SafeModeIgnored(sm) == FALSE
SafeModeCheck(sm) == sm

\* lines 158-164: in safe mode disable all modules and return
PfdSafeMode ==
    /\ pc = "pfd_safe"
    /\ IF SafeModeCheck(safe_mode)
       THEN /\ \E ok \in BOOLEAN :
                /\ Called("disable_all_modules", ok)
                /\ IF ok
                   THEN moduleTree' = DisableAll(moduleTree)
                   ELSE \E k \in 0..(Len(moduleTree) - 1) :
                            moduleTree' = DisableUpTo(moduleTree, k)
            /\ PfdReturn("ok")
       ELSE /\ pc' = "pfd_common"
            /\ UNCHANGED <<moduleTree, pfdResult, steps, failed>>
    /\ UNCHANGED <<fileVars, envVars, mountedImg, stockOverlay, mounts,
                   target_update_img, sel, adopted, msVars, bcVars>>

\* lines 167-169: exec_common_scripts("post-fs-data.d", true)
PfdCommonScripts ==
    /\ pc = "pfd_common"
    /\ \E ok \in BOOLEAN : Called("exec_common_scripts", ok)
    /\ pc' = "pfd_sepolicy"
    /\ UNCHANGED <<fileVars, envVars, mountVars, target_update_img,
                   sel, pfdResult, adopted, msVars, bcVars>>

\* the policy load with its error returned instead of logged
PfdLoadSepolicyFatal ==
    /\ pc = "pfd_sepolicy"
    /\ \E ok \in BOOLEAN :
        /\ Called("load_sepolicy_rule", ok)
        /\ IF ok
           THEN pc' = "pfd_scripts" /\ UNCHANGED pfdResult
           ELSE PfdReturn("err")
    /\ UNCHANGED <<fileVars, envVars, mountVars, target_update_img,
                   sel, adopted, msVars, bcVars>>

\* lines 172-174: load_sepolicy_rule()
PfdLoadSepolicy ==
    /\ pc = "pfd_sepolicy"
    /\ \E ok \in BOOLEAN : Called("load_sepolicy_rule", ok)
    /\ pc' = "pfd_scripts"
    /\ UNCHANGED <<fileVars, envVars, mountVars, target_update_img,
                   sel, pfdResult, adopted, msVars, bcVars>>

\* lines 178-180: exec_post_fs_data()
PfdModuleScripts ==
    /\ pc = "pfd_scripts"
    /\ \E ok \in BOOLEAN : Called("exec_post_fs_data", ok)
    /\ pc' = "pfd_prop"
    /\ UNCHANGED <<fileVars, envVars, mountVars, target_update_img,
                   sel, pfdResult, adopted, msVars, bcVars>>

\* lines 183-185: load_system_prop()
PfdLoadSystemProp ==
    /\ pc = "pfd_prop"
    /\ \E ok \in BOOLEAN : Called("load_system_prop", ok)
    /\ pc' = "pfd_umount_all"
    /\ UNCHANGED <<fileVars, envVars, mountVars, target_update_img,
                   sel, pfdResult, adopted, msVars, bcVars>>

\* lines 189-190: StockOverlay::new().umount_all()
PfdUmountAll ==
    /\ pc = "pfd_umount_all"
    /\ steps' = Append(steps, "umount_all")
    /\ stockOverlay' = FALSE
    /\ pc' = "ms_open"
    /\ UNCHANGED <<fileVars, envVars, mountedImg, moduleTree, mounts,
                   target_update_img, sel, pfdResult, failed, adopted, msVars,
                   bcVars>>

\* lines 197-199: stock_overlay.mount_all(); Ok(())
PfdMountAll ==
    /\ pc = "pfd_mount_all"
    /\ steps' = Append(steps, "mount_all")
    /\ stockOverlay' = TRUE
    /\ PfdReturn("ok")
    /\ UNCHANGED <<fileVars, envVars, mountedImg, moduleTree, mounts,
                   target_update_img, sel, failed, adopted, msVars, bcVars>>

\* ------------------------------------------------------------ on_services
\* lines 202-223
OnServices ==
    /\ pc = "svc_start"
    /\ steps' = IF has_magisk \/ safe_mode
                THEN <<"umask">>
                ELSE <<"umask", "exec_common_scripts", "exec_services">>
    /\ \E f \in SUBSET {"exec_common_scripts", "exec_services"} :
            failed' = IF has_magisk \/ safe_mode THEN {} ELSE f
    /\ svcResult' = "ok"
    /\ pc' = "bc_start"
    /\ UNCHANGED <<fileVars, envVars, mountVars, target_update_img,
                   sel, pfdResult, adopted, msVars, bc, bcResult,
                   daemonResult>>

\* ------------------------------------------------------ on_boot_completed
\* the entry point returns r; the system is up
BcReturn(r) ==
    /\ bcResult' = r
    /\ pc' = "running"

\* std::fs::rename(from, to): to holds the content of from, from is gone
RenameTo(from, to, ok) == IF ok THEN from ELSE to
RenameFrom(from, ok) == IF ok THEN NoImg ELSE from
\* std::fs::copy(from, to): on failure to may be left partly written
CopyTo(from, to, ok) ==
    IF ok THEN {from} ELSE {to, PartialImg(from.id)}
\* std::fs::remove_file(f)
RemoveFile(f, ok) == IF ok THEN NoImg ELSE f

\* line 230: is there an update image to promote
PromoteCheck(u) == Exists(u)

\* lines 226-233: promote the update image by rename
BcStart ==
    /\ pc = "bc_start"
    /\ steps' = <<"report">>
    /\ failed' = {}
    /\ IF PromoteCheck(updateImg)
       THEN \E ok \in BOOLEAN :
            /\ bc' = [NoBc EXCEPT !.had = TRUE, !.src = updateImg,
                                  !.before = baseImg,
                                  !.rename = IF ok THEN "ok" ELSE "err"]
            /\ baseImg' = RenameTo(updateImg, baseImg, ok)
            /\ updateImg' = RenameFrom(updateImg, ok)
            /\ IF ok
               THEN BcReturn("ok")
               ELSE pc' = "bc_copy" /\ UNCHANGED bcResult
       ELSE /\ bc' = [NoBc EXCEPT !.before = baseImg]
            /\ BcReturn("ok")
            /\ UNCHANGED <<updateImg, baseImg>>
    /\ UNCHANGED <<marker, nextId, envVars, mountVars, target_update_img,
                   sel, pfdResult, adopted, msVars, svcResult, daemonResult>>

\* line 235: the ? after copy
CopyNextIgnored(ok) == "bc_remove"
CopyNext(ok) == IF ok THEN "bc_remove" ELSE "running"
\* line 236: the ? after remove_file
RemoveResultIgnored(ok) == "ok"
RemoveResult(ok) == IF ok THEN "ok" ELSE "err"

\* lines 234-235: std::fs::copy(module_update_img, module_img)?
BcCopy ==
    /\ pc = "bc_copy"
    /\ \E ok \in BOOLEAN :
        /\ bc' = [bc EXCEPT !.copy = IF ok THEN "ok" ELSE "err"]
        /\ baseImg' \in CopyTo(updateImg, baseImg, ok)
        /\ pc' = CopyNext(ok)
        /\ bcResult' = IF pc' = "running" THEN "err" ELSE bcResult
    /\ UNCHANGED <<updateImg, marker, nextId, envVars, mountVars, pfdVars,
                   msVars, svcResult, daemonResult>>

\* line 236: std::fs::remove_file(module_update_img)?
BcRemove ==
    /\ pc = "bc_remove"
    /\ \E ok \in BOOLEAN :
        /\ bc' = [bc EXCEPT !.remove = IF ok THEN "ok" ELSE "err"]
        /\ updateImg' = RemoveFile(updateImg, ok)
        /\ BcReturn(RemoveResult(ok))
    /\ UNCHANGED <<baseImg, marker, nextId, envVars, mountVars, pfdVars,
                   msVars, svcResult, daemonResult>>

\* ----------------------------------------------------------------- daemon
\* lines 242-244: Ok(())
Daemon ==
    /\ pc = "running"
    /\ daemonResult = "none"
    /\ daemonResult' = "ok"
    /\ UNCHANGED <<fileVars, envVars, pc, mountVars, pfdVars, msVars,
                   svcResult, bc, bcResult>>

\* ------------------------------------------------------------ environment
\* The installer, on the running system, writes a new update image together
\* with its pending flag.
PlaceUpdate ==
    /\ pc = "running"
    /\ nextId <= 1 + MaxUpdates
    /\ updateImg' = Img(nextId)
    /\ marker' = TRUE
    /\ nextId' = nextId + 1
    /\ UNCHANGED <<baseImg, envVars, pc, mountVars, pfdVars, msVars, bcVars>>

\* The device reboots (or crashes and restarts) at any moment: the mount
\* table is lost, the files stay, and the host runs the phases again.
Reboot ==
    /\ boots < MaxBoots
    /\ boots' = boots + 1
    /\ has_magisk' \in BOOLEAN
    /\ safe_mode' \in BOOLEAN
    /\ pc' = "pfd_start"
    /\ mountedImg' = NoMount
    /\ moduleTree' = << >>
    /\ stockOverlay' = TRUE
    /\ mounts' = [p \in Partitions |-> PreOverlay]
    /\ target_update_img' = "base"
    /\ sel' = NoSel
    /\ pfdResult' = "none"
    /\ steps' = << >>
    /\ failed' = {}
    /\ lowerdirs' = NoLowerdirs
    /\ remaining' = {}
    /\ mpCalls' = [p \in Partitions |-> 0]
    /\ last' = NoCall
    /\ msResult' = "none"
    /\ svcResult' = "none"
    /\ daemonResult' = "none"
    /\ bc' = NoBc
    /\ bcResult' = "none"
    /\ UNCHANGED <<fileVars, symlinks, adopted>>

\* ---------------------------------------------------------- specification
BootSymlinks == {{}}
MountSymlinks == SUBSET {"vendor", "odm"}

\* what every first state has in common: nothing has run yet
InitCommon ==
    /\ boots = 1
    /\ mounts = [p \in Partitions |-> PreOverlay]
    /\ target_update_img = "base"
    /\ sel = NoSel
    /\ pfdResult = "none"
    /\ failed = {}
    /\ adopted = [i \in UpdateIds |-> 0]
    /\ lowerdirs = NoLowerdirs
    /\ remaining = {}
    /\ mpCalls = [p \in Partitions |-> 0]
    /\ last = NoCall
    /\ msResult = "none"
    /\ svcResult = "none"
    /\ daemonResult = "none"
    /\ bc = NoBc
    /\ bcResult = "none"

\* the device at its first boot, with any combination of the three files
Init ==
    /\ InitCommon
    /\ baseImg \in {NoImg, Img(1)}
    /\ updateImg \in {NoImg, Img(2)}
    /\ marker \in BOOLEAN
    /\ nextId = IF Exists(updateImg) THEN 3 ELSE 2
    /\ has_magisk \in BOOLEAN
    /\ safe_mode \in BOOLEAN
    /\ symlinks \in BootSymlinks
    /\ pc = "pfd_start"
    /\ mountedImg = NoMount
    /\ moduleTree = << >>
    /\ stockOverlay = TRUE
    /\ steps = << >>

Next ==
    \/ PfdStart
    \/ PfdCleanDir
    \/ PfdEnsureBinaries
    \/ PfdSelectImage
    \/ PfdCheckTarget
    \/ PfdMountImage
    \/ PfdSafeMode
    \/ PfdCommonScripts
    \/ PfdLoadSepolicy
    \/ PfdModuleScripts
    \/ PfdLoadSystemProp
    \/ PfdUmountAll
    \/ MsOpenDir
    \/ MsMountSystem
    \/ MsMountOther
    \/ MsReturn
    \/ PfdMountAll
    \/ OnServices
    \/ BcStart
    \/ BcCopy
    \/ BcRemove
    \/ Daemon
    \/ PlaceUpdate
    \/ Reboot

Spec == Init /\ [][Next]_vars

\* on_post_data_fs at its call of mount_systemlessly, the base image mounted
\* with any module tree, the stock overlay wrapper unmounted
InitMount ==
    /\ InitCommon
    /\ baseImg = Img(1)
    /\ updateImg = NoImg
    /\ marker = FALSE
    /\ nextId = 2
    /\ has_magisk = FALSE
    /\ safe_mode = FALSE
    /\ symlinks \in MountSymlinks
    /\ pc = "ms_open"
    /\ mountedImg = [img |-> Img(1), from |-> "base"]
    /\ moduleTree \in Trees
    /\ stockOverlay = FALSE
    /\ steps = <<"report", "umask", "clean_dir", "ensure_binaries",
                 "mount_image", "exec_common_scripts", "load_sepolicy_rule",
                 "exec_post_fs_data", "load_system_prop", "umount_all">>

NextMount ==
    \/ MsOpenDir
    \/ MsMountSystem
    \/ MsMountOther
    \/ MsReturn

SpecMount == InitMount /\ [][NextMount]_vars

\* ================================================================ claims
Range(seq) == {seq[i] : i \in 1..Len(seq)}

\* the latest mount_partition invocation went past the two early returns
\* and the snapshot
Overlaid == "overlay" \in Range(last.called)
OverlayOk == "overlay" \in last.oks
RemountOk == "remount" \in last.oks
UmountOk == "umount" \in last.oks

\* C1 as stated: when the overlay mount succeeded and the stock remount
\* failed, the partition is back in its pre-overlay mount state, without an
\* overlay, when mount_partition returns.
C1_AlwaysUnwound ==
    (Overlaid /\ OverlayOk /\ ~RemountOk)
        => /\ ~mounts[last.part].overlay
           /\ mounts[last.part] = last.pre

\* C1 amended: when the overlay mount succeeded and the stock remount
\* failed, umount_dir is called on the partition; when that unmount succeeds
\* the partition is back in its pre-overlay mount state, and when it fails
\* the overlay stays mounted and mount_partition still returns Ok.
C1_UnwoundIfUmountOk ==
    (Overlaid /\ OverlayOk /\ ~RemountOk)
        => /\ last.called = <<"snapshot", "overlay", "remount", "umount">>
           /\ UmountOk => /\ ~mounts[last.part].overlay
                          /\ mounts[last.part] = last.pre
           /\ ~UmountOk => /\ mounts[last.part].overlay
                           /\ last.result = "ok"

C1_Witness ==
    /\ Overlaid /\ OverlayOk /\ ~RemountOk /\ UmountOk
    /\ Len(last.arg) > 0
    /\ last.part \notin symlinks
    /\ mounts[last.part] = PreOverlay

\* C9: the result of mount_partition is the result of its mount_overlay
\* call, whatever the remount and the rollback unmount did, and the stock
\* remount is called after the overlay mount whether it succeeded or not.
C9_ResultIsOverlayResult ==
    Overlaid
        => /\ last.result = (IF OverlayOk THEN "ok" ELSE "err")
           /\ SubSeq(last.called, 1, 3) = <<"snapshot", "overlay", "remount">>

C9_Witness ==
    /\ Overlaid /\ OverlayOk /\ ~RemountOk /\ ~UmountOk
    /\ last.result = "ok"
    /\ mounts[last.part].overlay

\* C10: the lowerdir option of every overlay mount is the collected module
\* directories in their order followed by /<partition>, which is last and
\* occurs once, and the mount target is /<partition>.
C10_LowestDirLast ==
    Overlaid
        => LET dirs == SplitSep(last.ovlLower)
               base == "/" \o last.part
           IN  /\ dirs = lowerdirs[last.part] \o <<base>>
               /\ dirs[Len(dirs)] = base
               /\ Cardinality({i \in 1..Len(dirs) : dirs[i] = base}) = 1
               /\ last.ovlTarget = base

C10_Witness ==
    /\ Overlaid
    /\ last.part = "vendor"
    /\ SplitSep(last.ovlLower) =
         <<"/data/adb/modules/modA/vendor", "/data/adb/modules/modB/vendor",
           "/vendor">>

\* C7: once the module root is opened mount_partition is invoked once for
\* each of the six partitions, never twice, and mount_systemlessly returns
\* Ok whatever the partition mounts returned; it returns an error only when
\* the module root cannot be opened, and then invokes mount_partition for no
\* partition.
Opened == "mount_systemlessly" \in Range(steps) \ failed
C7_EveryPartitionOnce ==
    /\ \A p \in Partitions : mpCalls[p] <= 1
    /\ msResult = "ok" => \A p \in Partitions : mpCalls[p] = 1
    /\ (Opened /\ pc = "pfd_mount_all") => msResult = "ok"
    /\ msResult = "err" => /\ ~Opened
                           /\ \A p \in Partitions : mpCalls[p] = 0
                           /\ mounts = [p \in Partitions |-> PreOverlay]

C7_Witness ==
    /\ msResult = "ok"
    /\ \A p \in Partitions : mpCalls[p] = 1
    /\ mounts["system"] = PreOverlay
    /\ lowerdirs["system"] # << >>
    /\ "system" \notin symlinks
    /\ mounts["vendor"].overlay
    /\ last.result = "err"

\* ------------------------------------------------------- boot lifecycle
BcPcs == {"bc_start", "bc_copy", "bc_remove"}
\* on_post_data_fs of this boot is running or has just returned: steps and
\* failed are its calls, and the files are as it left them
DuringOrAfterPfd == pc \notin BcPcs \cup {"running"}
PfdReturned == pc = "svc_start"

\* the selection of this boot met an update image without flag that an
\* earlier boot had mounted from the update path
StaleAdopted ==
    /\ sel.seen /\ sel.update /\ ~sel.flag
    /\ adopted[sel.img.id] >= 1

C3_PromotedWasMounted ==
    bc.had => mountedImg = [img |-> bc.src, from |-> "update"]

\* C4 as stated: after the selection, update and flag met: the update image
\* is the target and the flag is gone; update without flag met: the update
\* image is gone and the base image is the target; no image at the target:
\* no mount is attempted and on_post_data_fs returns Ok.
NothingAtTarget ==
    /\ sel.seen
    /\ {"remove_flag", "remove_update"} \cap failed = {}
    /\ pc # "pfd_target"
    /\ ~Exists(TargetImg)
NoMountAndOk ==
    /\ PfdReturned /\ pfdResult = "ok"
    /\ "mount_image" \notin Range(steps)
    /\ mountedImg = NoMount
SelectionAborted ==
    /\ PfdReturned /\ pfdResult = "err"
    /\ "mount_image" \notin Range(steps)
    /\ mountedImg = NoMount
    /\ updateImg = sel.img
    /\ marker = sel.flag
C5_PromotionPostcondition ==
    [][ (pc \in BcPcs /\ pc' = "running")
          => /\ (bc'.had /\ bcResult' = "ok")
                  => /\ baseImg' = bc'.src
                     /\ bc'.src.full
                     /\ ~Exists(updateImg')
             /\ ~bc'.had
                  => /\ bcResult' = "ok"
                     /\ baseImg' = baseImg /\ updateImg' = updateImg
                     /\ ~Exists(updateImg) ]_vars

C5_Witness ==
    /\ pc = "running"
    /\ bc.had /\ bcResult = "ok"
    /\ bc.rename = "err" /\ bc.copy = "ok" /\ bc.remove = "ok"
    /\ baseImg = bc.src
    /\ ~Exists(updateImg)

\* C6: on_boot_completed returns an error exactly when the copy or the
\* removal of the source failed (a failed rename followed by a successful
\* copy and removal is Ok), and the update image file disappears only in a
\* step after which the base image file holds its full content; the removal
\* after the copy starts with the base image file already equal to it.
C6_NoSilentLoss ==
    [][ /\ (pc \in BcPcs /\ pc' = "running")
             => (bcResult' = "err"
                    <=> (bc'.copy = "err" \/ bc'.remove = "err"))
        /\ (pc \in BcPcs /\ Exists(updateImg) /\ ~Exists(updateImg'))
             => /\ baseImg' = updateImg
                /\ updateImg.full
                /\ pc = "bc_remove" => baseImg = updateImg ]_vars

C6_Witness ==
    /\ pc = "running"
    /\ bc.rename = "err" /\ bc.copy = "ok" /\ bc.remove = "err"
    /\ bcResult = "err"
    /\ updateImg = bc.src /\ baseImg = bc.src

\* C8 as stated: after on_post_data_fs in safe mode with a module image
\* mounted, every module directory has a disable marker, and no hook
\* script, policy or property load, stock overlay unmount or partition
\* overlay mount happened.
HookAndMountCalls ==
    {"exec_common_scripts", "load_sepolicy_rule", "exec_post_fs_data",
     "load_system_prop", "umount_all", "mount_systemlessly", "mount_all"}
AllDisabled(tree) ==
    \A i \in 1..Len(tree) : tree[i].isDir => tree[i].disabled
NoHooksNoMounts ==
    /\ Range(steps) \cap HookAndMountCalls = {}
    /\ \A p \in Partitions : mpCalls[p] = 0
    /\ mounts = [p \in Partitions |-> PreOverlay]
    /\ stockOverlay
SafeModePhaseDone == PfdReturned /\ safe_mode /\ mountedImg # NoMount
C8_SafeModeAllDisabled ==
    SafeModePhaseDone => AllDisabled(moduleTree) /\ NoHooksNoMounts

\* C8 amended: after on_post_data_fs in safe mode with a module image
\* mounted, disable_all_modules was called and no hook script, policy or
\* property load, stock overlay unmount or partition overlay mount
\* happened; every module directory has a disable marker when
\* disable_all_modules succeeded (its failure is logged and the phase
\* returns Ok all the same).
C8_SafeMode ==
    SafeModePhaseDone
        => /\ NoHooksNoMounts
           /\ steps[Len(steps)] = "disable_all_modules"
           /\ pfdResult = "ok"
           /\ "disable_all_modules" \notin failed => AllDisabled(moduleTree)

C8_Witness ==
    /\ SafeModePhaseDone
    /\ "disable_all_modules" \in Range(steps) \ failed
    /\ Len(moduleTree) = 2
    /\ \A i \in 1..2 : moduleTree[i].isDir /\ moduleTree[i].disabled
    /\ NoHooksNoMounts

\* ------------------------------------------------- lowerdir collection
\* the number of times path occurs in list
Occurrences(list, path) ==
    Cardinality({i \in 1..Len(list) : list[i] = path})

\* C11: in the collected lowerdir lists, for each of the six partitions, a
\* module with a disable marker and an entry that is not a directory have no
\* entry, an enabled module directory has exactly one entry,
\* <module>/<partition>, if and only if it holds a subtree for the partition,
\* and the lists hold nothing else.
C11_DisabledContributeNothing ==
    Opened =>
      \A p \in Partitions :
        /\ \A i \in 1..Len(moduleTree) :
             LET e == moduleTree[i]
                 path == MODULE_DIR \o "/" \o ModNames[i] \o "/" \o p
             IN  Occurrences(lowerdirs[p], path) =
                   IF e.isDir /\ ~e.disabled /\ p \in e.parts THEN 1 ELSE 0
        /\ Len(lowerdirs[p]) =
             Cardinality({i \in 1..Len(moduleTree) :
                            /\ moduleTree[i].isDir
                            /\ ~moduleTree[i].disabled
                            /\ p \in moduleTree[i].parts})

C11_Witness ==
    /\ Opened
    /\ Len(moduleTree) = 2
    /\ moduleTree[1] =
         [isDir |-> TRUE, disabled |-> TRUE, parts |-> {"system", "vendor"}]
    /\ moduleTree[2] =
         [isDir |-> TRUE, disabled |-> FALSE, parts |-> {"system"}]
    /\ lowerdirs["system"] = <<"/data/adb/modules/modB/system">>
    /\ lowerdirs["vendor"] = << >>

\* C12: a mount_partition invocation with an empty lowerdir list, or for a
\* partition whose /<partition> is a symbolic link, makes no snapshot,
\* overlay mount, remount or unmount call, leaves the mount state as it was
\* and returns Ok.
C12_NoOpOnEmptyOrSymlink ==
    (last.part # "none" /\ (Len(last.arg) = 0 \/ last.part \in symlinks))
        => /\ last.called = << >>
           /\ last.result = "ok"
           /\ last.post = last.pre
           /\ mounts[last.part] = last.pre

C12_Witness ==
    /\ last.part = "vendor"
    /\ "vendor" \in symlinks
    /\ Len(last.arg) = 2
    /\ last.called = << >>
    /\ last.result = "ok"
    /\ mounts["vendor"] = PreOverlay

\* C14: mount_partition for one of vendor, product, system_ext, odm, oem is
\* invoked only after the invocation for system has returned, whatever that
\* one did.
C14_SystemFirst ==
    \A p \in OtherPartitions :
        mpCalls[p] >= 1 => mpCalls[SystemPartition] = 1 /\ pc # "ms_system"

C14_Witness ==
    /\ last.part = "vendor"
    /\ mpCalls["vendor"] = 1 /\ mpCalls["system"] = 1
    /\ mounts["system"] = [overlay |-> TRUE, stock |-> FALSE]
    /\ remaining # {}

\* C20: a mount_partition invocation whose stock mount snapshot fails
\* returns an error after that one call, without overlay mount, remount or
\* unmount, and leaves every mount as it was; mount_systemlessly goes on
\* with the loop over the remaining partitions and, when it returns Ok,
\* has invoked mount_partition for every partition.
SnapshotFailed(call) ==
    "snapshot" \in Range(call.called) /\ "snapshot" \notin call.oks
C20_SnapshotFailure ==
    [][ /\ (mpCalls' # mpCalls /\ SnapshotFailed(last'))
             => /\ last'.called = <<"snapshot">>
                /\ last'.result = "err"
                /\ Len(last'.arg) > 0 /\ last'.part \notin symlinks
                /\ mounts' = mounts
                /\ pc' = "ms_others"
                /\ msResult' = "none"
                /\ remaining' = OtherPartitions \ {q \in OtherPartitions :
                                                     mpCalls'[q] = 1}
        /\ msResult' = "ok" => \A p \in Partitions : mpCalls'[p] = 1 ]_vars

C20_Witness ==
    /\ SnapshotFailed(last)
    /\ last.result = "err"
    /\ msResult = "ok"
    /\ \A p \in Partitions : mpCalls[p] = 1
    /\ \E p \in Partitions : mounts[p].overlay

\* ------------------------------------------------------- phase contracts
\* C13: with the alternate framework active on_post_data_fs returns Ok
\* after the report call alone: the module directory is not cleaned, the
\* flag and both images stay, nothing is mounted or unmounted, no hook runs;
\* on_services returns Ok without running a hook script.
C13_MagiskSkip ==
    [][ (has_magisk /\ boots' = boots)
          => /\ pc = "pfd_start"
                  => /\ pc' = "svc_start"
                     /\ pfdResult' = "ok"
                     /\ steps' = <<"report">>
                     /\ UNCHANGED <<fileVars, mountVars, sel, adopted,
                                    msVars>>
             /\ pc = "svc_start"
                  => /\ pc' = "bc_start"
                     /\ svcResult' = "ok"
                     /\ steps' = <<"umask">>
                     /\ failed' = {}
                     /\ UNCHANGED <<fileVars, mountVars, msVars>> ]_vars

C13_Witness ==
    /\ has_magisk
    /\ pc = "bc_start"
    /\ Exists(updateImg) /\ marker /\ Exists(baseImg)
    /\ pfdResult = "ok" /\ svcResult = "ok"
    /\ steps = <<"umask">>
    /\ mountedImg = NoMount
    /\ stockOverlay

\* C15: outside safe mode with a module image mounted, the calls of
\* on_post_data_fs after the image mount are, in this order, the common
\* scripts, the policy load, the module scripts, the property load, the
\* stock overlay unmount, mount_systemlessly and the stock overlay mount,
\* whichever of them failed, and the phase returns Ok.
HookOrder ==
    <<"exec_common_scripts", "load_sepolicy_rule", "exec_post_fs_data",
      "load_system_prop", "umount_all", "mount_systemlessly", "mount_all">>
AfterImageMount ==
    LET k == CHOOSE i \in 1..Len(steps) : steps[i] = "mount_image"
    IN  SubSeq(steps, k + 1, Len(steps))
C15_HooksInOrder ==
    (DuringOrAfterPfd /\ mountedImg # NoMount /\ ~safe_mode)
        => /\ Len(AfterImageMount) <= Len(HookOrder)
           /\ AfterImageMount = SubSeq(HookOrder, 1, Len(AfterImageMount))
           /\ PfdReturned => /\ AfterImageMount = HookOrder
                             /\ pfdResult = "ok"
           /\ failed \subseteq Range(AfterImageMount)

C15_Witness ==
    /\ PfdReturned /\ ~safe_mode /\ mountedImg # NoMount
    /\ failed = {"exec_common_scripts", "load_sepolicy_rule",
                 "exec_post_fs_data", "load_system_prop"}
    /\ AfterImageMount = HookOrder
    /\ msResult = "ok"
    /\ pfdResult = "ok"

\* C16: partition overlays are mounted only while the stock overlay wrapper
\* is unmounted; the wrapper is unmounted only between umount_all and
\* mount_all of on_post_data_fs; when the phase returns after umount_all its
\* last two calls were mount_systemlessly and mount_all, also when
\* mount_systemlessly failed, and the wrapper is mounted.
MountPhasePcs == {"ms_open", "ms_system", "ms_others", "pfd_mount_all"}
C16_WrapperBracketing ==
    /\ pc \in {"ms_system", "ms_others"} => ~stockOverlay
    /\ (DuringOrAfterPfd /\ \E p \in Partitions : mpCalls[p] >= 1)
          => "umount_all" \in Range(steps)
    /\ ~stockOverlay => pc \in MountPhasePcs
    /\ pc \in MountPhasePcs => ~stockOverlay
    /\ (PfdReturned /\ "umount_all" \in Range(steps))
          => /\ stockOverlay
             /\ SubSeq(steps, Len(steps) - 2, Len(steps))
                  = <<"umount_all", "mount_systemlessly", "mount_all">>
             /\ msResult \in {"ok", "err"}

C16_Witness ==
    /\ PfdReturned
    /\ msResult = "err"
    /\ "mount_systemlessly" \in failed
    /\ steps[Len(steps)] = "mount_all"
    /\ stockOverlay
    /\ pfdResult = "ok"

\* C17: when removing the stale update image fails, on_post_data_fs does
\* not return the error but goes on with the base image.
C17_CleanupFailureContinues ==
    (PfdReturned /\ "remove_update" \in failed)
        => /\ pfdResult = "ok"
           /\ steps[Len(steps)] # "remove_update"
           /\ sel.base => "mount_image" \in Range(steps)

\* C18: a failure of ensure_binaries ends on_post_data_fs with an error
\* before the selection, the flag and the images as they were at the start
\* of the phase and no image mounted; a failure of the image mount ends it
\* with an error; after either no hook, policy or property load, module
\* disabling, stock overlay unmount or partition overlay mount happens.
C18_FatalFailures ==
    [][ boots' = boots =>
        /\ pc \in {"pfd_start", "pfd_clean", "pfd_bin"}
             => UNCHANGED <<fileVars, mountedImg, sel>>
        /\ (pc = "pfd_bin" /\ "ensure_binaries" \in failed')
             => /\ pc' = "svc_start"
                /\ pfdResult' = "err"
                /\ ~sel'.seen
                /\ mountedImg' = NoMount
                /\ steps'[Len(steps')] = "ensure_binaries"
                /\ mounts' = [p \in Partitions |-> PreOverlay]
                /\ stockOverlay'
        /\ (pc = "pfd_mount" /\ "mount_image" \in failed')
             => /\ pc' = "svc_start"
                /\ pfdResult' = "err"
                /\ mountedImg' = NoMount
                /\ steps'[Len(steps')] = "mount_image"
                /\ mounts' = [p \in Partitions |-> PreOverlay]
                /\ stockOverlay'
        /\ (pc' = "svc_start"
            /\ {"ensure_binaries", "mount_image"} \cap failed' # {})
             => /\ Range(steps') \cap HookAndMountCalls = {}
                /\ "disable_all_modules" \notin Range(steps')
                /\ \A p \in Partitions : mpCalls'[p] = 0 ]_vars

C18_Witness ==
    /\ PfdReturned
    /\ "mount_image" \in failed
    /\ pfdResult = "err"
    /\ sel.flag /\ ~marker
    /\ target_update_img = "update"
    /\ mountedImg = NoMount
    /\ NoHooksNoMounts

\* C19: an image gets mounted on the module directory only by the image
\* mount of on_post_data_fs; the base image file changes only in
\* on_boot_completed; on_post_data_fs and on_services leave it as it is and
\* at most remove the flag and the update image; daemon changes no file and
\* no mount.
C19_PhasePrivileges ==
    [][ /\ baseImg' # baseImg => pc \in BcPcs
        /\ (mountedImg' # mountedImg /\ mountedImg' # NoMount)
             => pc = "pfd_mount"
        /\ (pc \notin BcPcs \cup {"running"} /\ boots' = boots)
             => /\ baseImg' = baseImg
                /\ updateImg' \in {updateImg, NoImg}
                /\ marker' => marker
        /\ (daemonResult = "none" /\ daemonResult' = "ok")
             => UNCHANGED <<fileVars, mountVars>> ]_vars

C19_Witness ==
    /\ pc = "running"
    /\ daemonResult = "ok"
    /\ bc.had /\ bcResult = "ok"
    /\ baseImg = bc.src /\ baseImg # bc.before
    /\ mountedImg = [img |-> bc.src, from |-> "update"]

====
